---------------------------- MODULE Spec2Model ----------------------------
(***************************************************************************)
(* Model of the orchestration core of coasagent:                           *)
(*   - RSSFeedManager  (src/unnamed/part_002), the bounded feed store;     *)
(*   - InstanceManager (src/unnamed/part_001), the instance scheduler;     *)
(*   - AIClient        (src/unnamed/part_001), the resilient client.       *)
(* Time is the reading of Date.now() in milliseconds, relative to the      *)
(* instant the model starts at (items that were stored before that instant *)
(* carry readings <= 0).                                                    *)
(***************************************************************************)
EXTENDS Integers, Sequences, FiniteSets, Bags, TLC

VARIABLES
    now,        \* current reading of the clock (Date.now())
    feeds,      \* RSSFeedManager.feeds: the Map, as a sequence in insertion order
    nextSeq,    \* ghost: insertion stamp the next stored item gets
    lastOp,     \* ghost: the feed store or client operation that produced the
                \* current state
    instances,  \* InstanceManager.instances: the Map, id -> AgentInstance
    detached,   \* AgentInstance objects deleted from the Map that a suspended
                \* cycle still holds a reference to
    nextId,     \* the next id generateInstanceId hands out
    timers,     \* per id, the live setInterval timers whose callback runs its cycle
    pending,    \* per id, the setTimeout callbacks not yet run
    cycles,     \* bag of the executions of executeAgentCycle suspended at an await
    since,      \* ghost: per id, what has happened since start was last called
                \* for it: stopInstance returned (stopped), a cycle failed (failed)
    client,     \* the AIClient object and the generateResponse calls suspended in
                \* a backend call
    heap,       \* the caller's AgentConfig object and the role objects that
                \* configs refer to
    probe       \* of the one cycle that is followed: the config it passed to
                \* collectAll and to processContent, and (ghost) whether its
                \* instance has been started again since it began

feedVars == <<now, feeds, nextSeq, lastOp>>
schedOnlyVars == <<instances, detached, nextId, timers, pending, cycles, since>>
vars == <<now, feeds, nextSeq, lastOp, instances, detached, nextId, timers, pending,
          cycles, since, client, heap, probe>>

----------------------------------------------------------------------------
(* Bounds of the model *)

MaxAppends == 3      \* addItem calls explored per behaviour
MaxMs == 1           \* single-millisecond advances of the clock explored
MaxJumps == 1        \* retention-window sized advances of the clock explored
MaxLimit == 3        \* largest limit handed to getLatestItems beyond the edge cases
MaxPending == 1      \* setTimeout callbacks of one instance pending at a time
MaxInFlight == 2     \* executions of the cycle routine suspended at a time
MaxCycleItems == 1   \* items the cycles of one behaviour store
MaxDays == 1         \* cleanup-age sized advances of the clock explored
MaxCalls == 2        \* generateResponse calls suspended at a time

(* Program constants *)

maxItemsPerFeed == 50
HourMs == 3600000
DefaultRetentionHours == 168
DefaultCleanupHours == 24
CooldownMs == 300000
DefaultMaxRetries == 3

Formats == {"normal", "question"}
FeedContents == {1}      \* the text is opaque to the store
AgeChoices == {0, DefaultRetentionHours}
RetryChoices == {1, DefaultMaxRetries}
CallIds == {1, 2, 3}     \* the generateResponse calls explored per behaviour

Min(a, b) == IF a < b THEN a ELSE b

----------------------------------------------------------------------------
(* RSSGenerator.createFeedForFormat: the item and the channel built for one
   call, both stamped with one reading of the clock. *)

ItemId(format, timestamp) == <<"coasagent", format, timestamp>>

NewItem(format, content, timestamp, seq) ==
    [id |-> ItemId(format, timestamp),
     content |-> content,
     pubDate |-> timestamp,
     category |-> format,
     seq |-> seq]

createFeedForFormat(format, content, timestamp, seq) ==
    [format |-> format,
     lastUpdated |-> timestamp,
     items |-> <<NewItem(format, content, timestamp, seq)>>]

(* Map.get / Map.set on the insertion-ordered Map *)

FeedIndex(fs, format) ==
    IF \E i \in 1..Len(fs) : fs[i].format = format
    THEN CHOOSE i \in 1..Len(fs) : fs[i].format = format
    ELSE 0

HasFeed(fs, format) == FeedIndex(fs, format) # 0

getFeed(fs, format) == fs[FeedIndex(fs, format)]

UnshiftAtEnd(items, x) == Append(items, x)

(* items.unshift(x) *)
Unshift(items, x) == <<x>> \o items

LimitSizeEvictingNewest(items) ==
    IF Len(items) > maxItemsPerFeed
    THEN <<items[1]>> \o SubSeq(items, 3, maxItemsPerFeed + 1)
    ELSE items

LimitSizeOneTooMany(items) ==
    IF Len(items) > maxItemsPerFeed
    THEN SubSeq(items, 1, maxItemsPerFeed + 1)
    ELSE items

(* the size limit of addItem: slice(0, maxItemsPerFeed) when longer *)
LimitSize(items) ==
    IF Len(items) > maxItemsPerFeed
    THEN SubSeq(items, 1, maxItemsPerFeed)
    ELSE items

TouchExistingForgotten(feed, t2) == feed.lastUpdated

(* lastUpdated of an existing feed after an append: a second clock reading *)
TouchExisting(feed, t2) == t2

(* RSSFeedManager.addItem: t1 is the clock reading createFeedForFormat takes,
   t2 the one taken for lastUpdated of an existing feed (t1 <= t2). *)
addItem(fs, format, content, t1, t2, seq) ==
    LET newFeed == createFeedForFormat(format, content, t1, seq)
        i == FeedIndex(fs, format)
    IN  IF i # 0
        THEN [fs EXCEPT ![i] =
                [format |-> fs[i].format,
                 lastUpdated |-> TouchExisting(fs[i], t2),
                 items |-> LimitSize(Unshift(fs[i].items, newFeed.items[1]))]]
        ELSE Append(fs, newFeed)

KeepItemInverted(item, cutoffTime) == item.pubDate <= cutoffTime

(* RSSFeedManager.clearOldItems: the filter predicate *)
KeepItem(item, cutoffTime) == item.pubDate > cutoffTime

clearOldItemsDroppingEmpty(fs, maxAgeHours, t) ==
    LET cutoffTime == t - maxAgeHours * 60 * 60 * 1000
        Kept(feed) == SelectSeq(feed.items, LAMBDA item : KeepItem(item, cutoffTime))
    IN  [i \in 1..Len(SelectSeq(fs, LAMBDA feed : Kept(feed) # <<>>)) |->
            [SelectSeq(fs, LAMBDA feed : Kept(feed) # <<>>)[i] EXCEPT !.items = Kept(@)]]

(* RSSFeedManager.clearOldItems *)
clearOldItems(fs, maxAgeHours, t) ==
    LET cutoffTime == t - maxAgeHours * 60 * 60 * 1000
    IN  [i \in 1..Len(fs) |->
            [fs[i] EXCEPT !.items =
                SelectSeq(fs[i].items, LAMBDA item : KeepItem(item, cutoffTime))]]

(* RSSFeedManager.getLatestItems *)
RECURSIVE Flatten(_)
Flatten(fs) ==
    IF fs = <<>> THEN <<>>
    ELSE Flatten(SubSeq(fs, 1, Len(fs) - 1)) \o fs[Len(fs)].items

SortsBeforeAscending(a, b) == a.pubDate < b.pubDate

SortsBeforeOrWith(a, b) == a.pubDate >= b.pubDate

(* the comparator of the sort: b before a iff b.pubDate - a.pubDate > 0 *)
SortsBefore(a, b) == a.pubDate > b.pubDate

(* Array.prototype.sort is stable: x goes behind every element that does not
   sort after it *)
RECURSIVE InsertSorted(_, _)
InsertSorted(s, x) ==
    IF s = <<>> THEN <<x>>
    ELSE IF SortsBefore(x, s[Len(s)])
         THEN Append(InsertSorted(SubSeq(s, 1, Len(s) - 1), x), s[Len(s)])
         ELSE Append(s, x)

RECURSIVE StableSort(_)
StableSort(s) ==
    IF s = <<>> THEN <<>>
    ELSE InsertSorted(StableSort(SubSeq(s, 1, Len(s) - 1)), s[Len(s)])

Slice(s, limit) == SubSeq(s, 1, Min(limit, Len(s)))

getLatestItems(fs, limit) == Slice(StableSort(Flatten(fs)), limit)

(* RSSFeedManager.getFeedStats *)
getFeedStats(fs) ==
    [f \in {fs[i].format : i \in 1..Len(fs)} |->
        [itemCount |-> Len(getFeed(fs, f).items),
         lastUpdated |-> getFeed(fs, f).lastUpdated]]

TotalItems(fs) == Len(Flatten(fs))

----------------------------------------------------------------------------
(* The clock advances by one millisecond or by one window (the retention window
   for the feed store, the cleanup age for the scheduler). *)
CanTickMs(t, window) == (t % window) < MaxMs
CanTickJump(t, window) == (t \div window) < MaxJumps

(* the second clock reading of one addItem call *)
SecondReadings(t, window) == {t} \cup (IF CanTickMs(t, window) THEN {t + 1} ELSE {})

----------------------------------------------------------------------------
(* InstanceManager *)

(* the ids generateInstanceId hands out, in the order of the createInstance
   calls; an id is never handed out twice *)
Ids == {1, 2}

(* the role objects on the caller's side and the focusTopic values they take *)
RoleRefs == {1, 2}
Topics == {"weather", "traffic"}

(* the AgentConfig objects passed to the scheduler: outputFormat is a string,
   role is a reference to a role object; the scheduler's callers all pass role
   object 1 *)
Configs == [outputFormat : Formats, role : {1}]

(* { ...config }: a new object with the own properties of config; a property
   that holds an object holds the same object in the copy *)
SpreadCopy(config) == [field \in DOMAIN config |-> config[field]]

(* no cycle is followed; a config that was passed is kept as <<config>> *)
ProbeNone == [collect |-> <<>>, process |-> <<>>, stale |-> FALSE]

ProbeInit == probe = ProbeNone

HeapInit ==
    heap = [config |-> [outputFormat |-> "normal", role |-> 1],
            roles |-> [ref \in RoleRefs |-> [focusTopic |-> "weather"]]]

(* the scheduler's state as one value, so that a handler can call another *)
Sched ==
    [instances |-> instances, detached |-> detached, timers |-> timers,
     pending |-> pending, cycles |-> cycles, since |-> since]

NoGhost == [stopped |-> FALSE, failed |-> FALSE]

(* new InstanceManager(): an empty Map, no timer armed *)
SchedInit ==
    /\ instances = <<>>
    /\ detached = <<>>
    /\ nextId = 1
    /\ timers = [id \in Ids |-> 0]
    /\ pending = [id \in Ids |-> 0]
    /\ cycles = EmptyBag
    /\ since = [id \in Ids |-> NoGhost]

Registered(s, id) == id \in DOMAIN s.instances

(* the suspended executions of the cycle routine that hold instance id *)
InFlight(s, id) ==
    LET held == {c \in BagToSet(s.cycles) : c.id = id}
    IN  BagCardinality([c \in held |-> s.cycles[c]])

createInstanceStarted(s, id, config, t) ==
    [s EXCEPT !.instances = id :> [status |-> "running",
                                   config |-> SpreadCopy(config),
                                   lastUpdate |-> t,
                                   cronJob |-> FALSE] @@ @]

(* InstanceManager.createInstance *)
createInstance(s, id, config, t) ==
    [s EXCEPT !.instances = id :> [status |-> "stopped",
                                   config |-> SpreadCopy(config),
                                   lastUpdate |-> t,
                                   cronJob |-> FALSE] @@ @]

StoppedStatusKept(instance) == instance.status

(* stopInstance: the status it leaves *)
StoppedStatus(instance) == "stopped"

stopInstanceLeavingTimer(s, id, t) ==
    IF ~Registered(s, id) THEN s
    ELSE [s EXCEPT !.instances[id] = [@ EXCEPT !.status = StoppedStatus(@),
                                               !.lastUpdate = t],
                   !.since[id].stopped = TRUE]

(* stopInstance: the value it returns *)
stopInstanceResult(s, id) == Registered(s, id)

(* InstanceManager.stopInstance *)
stopInstance(s, id, t) ==
    IF ~Registered(s, id) THEN s
    ELSE LET instance == s.instances[id]
         IN  [s EXCEPT
                !.timers[id] = IF instance.cronJob THEN @ - 1 ELSE @,
                !.instances[id] = [instance EXCEPT !.cronJob = FALSE,
                                                   !.status = StoppedStatus(instance),
                                                   !.lastUpdate = t],
                !.since[id].stopped = TRUE]

AlreadyRunningIgnored(instance) == FALSE

(* startInstance: the early return for an instance that is running *)
AlreadyRunning(instance) == instance.status = "running"

startInstanceWithoutOneShot(s, id, t) ==
    IF ~Registered(s, id) THEN s
    ELSE IF AlreadyRunning(s.instances[id]) THEN [s EXCEPT !.since[id] = NoGhost]
    ELSE [s EXCEPT
            !.timers[id] = @ + 1,
            !.instances[id] = [@ EXCEPT !.cronJob = TRUE,
                                        !.status = "running",
                                        !.lastUpdate = t],
            !.since[id] = NoGhost]

(* startInstance: the value it returns *)
startInstanceResult(s, id) == Registered(s, id)

(* InstanceManager.startInstance: setInterval and setTimeout do not throw, so the
   catch branch is never taken *)
startInstance(s, id, t) ==
    IF ~Registered(s, id) THEN s
    ELSE IF AlreadyRunning(s.instances[id]) THEN [s EXCEPT !.since[id] = NoGhost]
    ELSE [s EXCEPT
            !.timers[id] = @ + 1,
            !.instances[id] = [@ EXCEPT !.cronJob = TRUE,
                                        !.status = "running",
                                        !.lastUpdate = t],
            !.pending[id] = @ + 1,
            !.since[id] = NoGhost]

(* whether startInstance would arm timers *)
Arms(s, id) == Registered(s, id) /\ ~AlreadyRunning(s.instances[id])

Without(f, id) == [k \in DOMAIN f \ {id} |-> f[k]]

deleteInstanceKeepingEntry(s, id, t) ==
    IF ~Registered(s, id) THEN s ELSE stopInstance(s, id, t)

(* deleteInstance: the value it returns *)
deleteInstanceResult(s, id) == Registered(s, id)

(* InstanceManager.getInstance *)
getInstance(s, id) == IF Registered(s, id) THEN s.instances[id] ELSE "null"

(* InstanceManager.deleteInstance; the object stays reachable from the cycles
   suspended on it *)
deleteInstance(s, id, t) ==
    IF ~Registered(s, id) THEN s
    ELSE LET s1 == stopInstance(s, id, t)
         IN  [s1 EXCEPT
                !.instances = Without(s1.instances, id),
                !.detached = IF InFlight(s1, id) > 0
                             THEN id :> s1.instances[id] @@ @
                             ELSE @]

updateInstanceConfigWithoutRestart(s, id, newConfig, t) ==
    IF ~Registered(s, id) THEN s
    ELSE LET wasRunning == s.instances[id].status = "running"
             s1 == IF wasRunning THEN stopInstance(s, id, t) ELSE s
         IN  [s1 EXCEPT
                !.instances[id].config = SpreadCopy(newConfig),
                !.instances[id].lastUpdate = t]

(* updateInstanceConfig: the value it returns *)
updateInstanceConfigResult(s, id) == Registered(s, id)

(* InstanceManager.updateInstanceConfig *)
updateInstanceConfig(s, id, newConfig, t) ==
    IF ~Registered(s, id) THEN s
    ELSE LET wasRunning == s.instances[id].status = "running"
             s1 == IF wasRunning THEN stopInstance(s, id, t) ELSE s
             s2 == [s1 EXCEPT
                      !.instances[id].config = SpreadCopy(newConfig),
                      !.instances[id].lastUpdate = t]
         IN  IF wasRunning THEN startInstance(s2, id, t) ELSE s2

(* the AgentInstance object a suspended cycle holds: the Map's entry, or the
   object that was deleted from the Map *)
Holder(s, id) == IF Registered(s, id) THEN s.instances[id] ELSE s.detached[id]

WriteHolder(s, id, instance) ==
    IF Registered(s, id)
    THEN [s EXCEPT !.instances[id] = instance]
    ELSE [s EXCEPT !.detached[id] = instance]

EntryGuardWithoutStatus(s, id) == Registered(s, id)

(* executeAgentCycle: the entry guard *)
EntryGuard(s, id) == Registered(s, id) /\ s.instances[id].status = "running"

(* an execution suspended in collectAll; afterStop and afterFail are ghosts: what
   had happened since the last start when it passed the entry guard *)
NewCycle(s, id) ==
    [id |-> id, pc |-> "collect",
     afterStop |-> s.since[id].stopped, afterFail |-> s.since[id].failed]

(* InstanceManager.executeAgentCycle, up to its first await *)
executeAgentCycle(s, id) ==
    IF ~EntryGuard(s, id) THEN s
    ELSE [s EXCEPT !.cycles = @ (+) SetToBag({NewCycle(s, id)})]

(* the execution c returns; an object only it still referenced is dropped *)
Finish(s, c) ==
    LET s1 == [s EXCEPT !.cycles = @ (-) SetToBag({c})]
    IN  IF c.id \in DOMAIN s1.detached /\ InFlight(s1, c.id) = 0
        THEN [s1 EXCEPT !.detached = Without(@, c.id)]
        ELSE s1

collectReturnedAsError(s, c, empty) ==
    IF empty
    THEN Finish(WriteHolder(s, c.id, [Holder(s, c.id) EXCEPT !.status = "error"]), c)
    ELSE [s EXCEPT !.cycles = (@ (-) SetToBag({c}))
                               (+) SetToBag({[c EXCEPT !.pc = "process"]})]

(* executeAgentCycle from the return of collectAll to the next await *)
collectReturned(s, c, empty) ==
    IF empty THEN Finish(s, c)
    ELSE [s EXCEPT !.cycles = (@ (-) SetToBag({c}))
                               (+) SetToBag({[c EXCEPT !.pc = "process"]})]

cycleStoredWithoutUpdate(s, c, t) == Finish(s, c)

(* executeAgentCycle after addItem: instance.lastUpdate = new Date() *)
cycleStored(s, c, t) ==
    Finish(WriteHolder(s, c.id, [Holder(s, c.id) EXCEPT !.lastUpdate = t]), c)

CatchStopOmitted(s, id, t) == s

RECURSIVE StopAll(_, _, _)
StopAll(s, ids, t) ==
    IF ids = {} THEN s
    ELSE LET id == CHOOSE x \in ids : TRUE
         IN  StopAll(stopInstance(s, id, t), ids \ {id}, t)

CatchStopEveryInstance(s, id, t) == StopAll(s, DOMAIN s.instances, t)

(* the catch block's call of stopInstance *)
CatchStop(s, id, t) == stopInstance(s, id, t)

(* executeAgentCycle: the catch block *)
cycleFailed(s, c, t) ==
    LET s1 == WriteHolder(s, c.id, [Holder(s, c.id) EXCEPT !.status = "error",
                                                           !.lastUpdate = t])
        s2 == CatchStop(s1, c.id, t)
    IN  Finish([s2 EXCEPT !.since[c.id].failed = TRUE], c)

(* InstanceManager.cleanupOldInstances *)
CleanupVictimsInclusive(s, maxAgeHours, t) ==
    LET cutoffTime == t - maxAgeHours * 60 * 60 * 1000
    IN  {id \in DOMAIN s.instances :
            /\ s.instances[id].status = "stopped"
            /\ s.instances[id].lastUpdate <= cutoffTime}

CleanupVictims(s, maxAgeHours, t) ==
    LET cutoffTime == t - maxAgeHours * 60 * 60 * 1000
    IN  {id \in DOMAIN s.instances :
            /\ s.instances[id].status = "stopped"
            /\ s.instances[id].lastUpdate < cutoffTime}

RECURSIVE DeleteAll(_, _, _)
DeleteAll(s, ids, t) ==
    IF ids = {} THEN s
    ELSE LET id == CHOOSE x \in ids : TRUE
         IN  DeleteAll(deleteInstance(s, id, t), ids \ {id}, t)

cleanupOldInstances(s, maxAgeHours, t) ==
    DeleteAll(s, CleanupVictims(s, maxAgeHours, t), t)

(* cleanupOldInstances: removedCount, incremented with every deleteInstance *)
RECURSIVE CountRemoved(_, _, _, _)
CountRemoved(s, ids, t, removedCount) ==
    IF ids = {} THEN removedCount
    ELSE LET id == CHOOSE x \in ids : TRUE
         IN  CountRemoved(deleteInstance(s, id, t), ids \ {id}, t, removedCount + 1)

(* cleanupOldInstances: the value it returns *)
cleanupOldInstancesResult(s, maxAgeHours, t) ==
    CountRemoved(s, CleanupVictims(s, maxAgeHours, t), t, 0)

(* InstanceManager.getStats *)
CountStatusDroppingStopped(s, status) ==
    IF status = "stopped" THEN 0
    ELSE Cardinality({id \in DOMAIN s.instances : s.instances[id].status = status})

CountStatus(s, status) ==
    Cardinality({id \in DOMAIN s.instances : s.instances[id].status = status})

(* Math.min(...dates) and Math.max(...dates) of getStats; "null" when there is
   no instance *)
OldestUpdate(s) ==
    IF DOMAIN s.instances = {} THEN "null"
    ELSE CHOOSE d \in {s.instances[id].lastUpdate : id \in DOMAIN s.instances} :
             \A id \in DOMAIN s.instances : d <= s.instances[id].lastUpdate

NewestUpdate(s) ==
    IF DOMAIN s.instances = {} THEN "null"
    ELSE CHOOSE d \in {s.instances[id].lastUpdate : id \in DOMAIN s.instances} :
             \A id \in DOMAIN s.instances : d >= s.instances[id].lastUpdate

getStats(s) ==
    [total |-> Cardinality(DOMAIN s.instances),
     running |-> CountStatus(s, "running"),
     stopped |-> CountStatus(s, "stopped"),
     error |-> CountStatus(s, "error"),
     oldestInstance |-> OldestUpdate(s),
     newestInstance |-> NewestUpdate(s)]

----------------------------------------------------------------------------
(* AIClient *)

models == <<"gemini-2.0-flash-exp", "gemini-1.5-pro", "gemini-1.5-flash">>

(* the values of currentModelIndex *)
Ranks == 0..(Len(models) - 1)

(* what a backend call rejects with: error.message holds one of these *)
Errors == {"rate_limit", "quota", "api_error"}

(* new AIClient(): the best model, no cooldown recorded (0 stands for an absent
   entry of rateLimitCooldown: no clock reading is below it); calls holds the
   generateResponse calls suspended in a backend call, started counts the calls
   made so far and numbers them *)
ClientInit ==
    client = [currentModelIndex |-> 0,
              rateLimitCooldown |-> [r \in Ranks |-> 0],
              calls |-> {},
              started |-> 0]

(* rateLimitCooldown[model] && Date.now() < rateLimitCooldown[model] *)
InCooldown(c, rank, t) ==
    c.rateLimitCooldown[rank] # 0 /\ t < c.rateLimitCooldown[rank]

downgradeModelSkipped(c) == c

(* AIClient.downgradeModel *)
downgradeModel(c) ==
    IF c.currentModelIndex < Len(models) - 1
    THEN [c EXCEPT !.currentModelIndex = @ + 1]
    ELSE c

noRecentRateLimitsOfTarget(c, t) ==
    ~(c.currentModelIndex > 0 /\ t < c.rateLimitCooldown[c.currentModelIndex - 1])

(* AIClient.noRecentRateLimits *)
noRecentRateLimits(c, t) ==
    ~\E r \in Ranks : t < c.rateLimitCooldown[r]

upgradeModelUnchecked(c, t) ==
    IF noRecentRateLimits(c, t)
    THEN [c EXCEPT !.currentModelIndex = @ - 1]
    ELSE c

(* AIClient.upgradeModelIfPossible *)
upgradeModelIfPossible(c, t) ==
    IF c.currentModelIndex > 0 /\ noRecentRateLimits(c, t)
    THEN [c EXCEPT !.currentModelIndex = @ - 1]
    ELSE c

(* AIClient.getCurrentModel *)
getCurrentModel(c) == models[c.currentModelIndex + 1]

IsRateLimitOnly(error) == error = "rate_limit"

(* error.message.includes("rate_limit") || error.message.includes("quota") *)
IsRateLimit(error) == error \in {"rate_limit", "quota"}

CooldownCheckSkipped(c, rank, t) == FALSE

(* the cooldown check at the head of the loop body *)
CooldownCheck(c, rank, t) == InCooldown(c, rank, t)

BudgetOneMore(call) == call.attempts < call.maxRetries + 1

(* the loop condition: attempts < maxRetries *)
Budget(call) == call.attempts < call.maxRetries

(* generateResponse: the while loop, run from its head until the call is
   suspended in a backend call ("await") or throws ("exhausted").  No await
   lies between two iterations, so they all see the clock reading t.  log lists
   the attempts the run began: the rank each one targeted and whether the
   backend was called. *)
RECURSIVE RunLoop(_, _, _, _)
RunLoop(c, call, t, log) ==
    IF ~Budget(call)
    THEN [client |-> c, call |-> call, outcome |-> "exhausted", log |-> log]
    ELSE LET rank == c.currentModelIndex
         IN  IF CooldownCheck(c, rank, t)
             THEN RunLoop(downgradeModel(c),
                          [call EXCEPT !.attempts = @ + 1], t,
                          Append(log, [kind |-> "skip", rank |-> rank]))
             ELSE [client |-> c,
                   call |-> [call EXCEPT !.rank = rank],
                   outcome |-> "await",
                   log |-> Append(log, [kind |-> "call", rank |-> rank])]

(* the client after a run of the loop: a suspended call is kept *)
Settle(run, old) ==
    [run.client EXCEPT !.calls =
        (@ \ {old}) \cup (IF run.outcome = "await" THEN {run.call} ELSE {})]

(* AIClient.generateResponse up to its first await or its throw *)
generateResponse(c, maxRetries, t) ==
    LET call == [id |-> c.started + 1, maxRetries |-> maxRetries,
                 attempts |-> 0, rank |-> 0]
    IN  RunLoop([c EXCEPT !.started = @ + 1], call, t, <<>>)

callResolvedWithoutUpgrade(c, call, t) ==
    [client |-> c, call |-> call, outcome |-> "returned", log |-> <<>>]

(* generateResponse after the backend call of a suspended call resolves *)
callResolved(c, call, t) ==
    [client |-> upgradeModelIfPossible(c, t), call |-> call,
     outcome |-> "returned", log |-> <<>>]

callRejectedWithoutCooldown(c, call, error, t) ==
    RunLoop(downgradeModel(c), [call EXCEPT !.attempts = @ + 1], t, <<>>)

(* generateResponse after the backend call of a suspended call rejects: the
   catch block, then the loop again *)
callRejected(c, call, error, t) ==
    LET c1 == IF IsRateLimit(error)
              THEN [c EXCEPT !.rateLimitCooldown[call.rank] = t + 5 * 60 * 1000]
              ELSE c
    IN  RunLoop(downgradeModel(c1), [call EXCEPT !.attempts = @ + 1], t, <<>>)

----------------------------------------------------------------------------
(* The scheduler with the feed store its cycles write to.  No code path of Spec
   compares clock readings, so Spec runs at one reading of the clock. *)

CleanupMs == DefaultCleanupHours * HourMs
CleanupAgeChoices == {0, DefaultCleanupHours}

SetSched(s) ==
    /\ instances' = s.instances
    /\ detached' = s.detached
    /\ timers' = s.timers
    /\ pending' = s.pending
    /\ cycles' = s.cycles
    /\ since' = s.since

Init ==
    /\ now = 0
    /\ nextSeq = 1
    /\ feeds = <<>>
    /\ lastOp = [name |-> "init"]
    /\ SchedInit
    /\ ClientInit
    /\ HeapInit
    /\ ProbeInit

Create ==
    /\ nextId \in Ids
    /\ \E config \in Configs : SetSched(createInstance(Sched, nextId, config, now))
    /\ nextId' = nextId + 1
    /\ UNCHANGED <<now, feeds, nextSeq, lastOp, client, heap, probe>>

Start(id) ==
    /\ Arms(Sched, id) => pending[id] < MaxPending
    /\ SetSched(startInstance(Sched, id, now))
    /\ UNCHANGED <<now, feeds, nextSeq, lastOp, nextId, client, heap, probe>>

Stop(id) ==
    /\ SetSched(stopInstance(Sched, id, now))
    /\ UNCHANGED <<now, feeds, nextSeq, lastOp, nextId, client, heap, probe>>

Delete(id) ==
    /\ SetSched(deleteInstance(Sched, id, now))
    /\ UNCHANGED <<now, feeds, nextSeq, lastOp, nextId, client, heap, probe>>

UpdateConfig(id) ==
    /\ Registered(Sched, id) /\ instances[id].status = "running"
          => pending[id] < MaxPending
    /\ \E newConfig \in Configs :
          SetSched(updateInstanceConfig(Sched, id, newConfig, now))
    /\ UNCHANGED <<now, feeds, nextSeq, lastOp, nextId, client, heap, probe>>

CanBegin(id) == EntryGuard(Sched, id) => BagCardinality(cycles) < MaxInFlight

(* a setInterval timer of id fires *)
IntervalFire(id) ==
    /\ timers[id] > 0
    /\ CanBegin(id)
    /\ SetSched(executeAgentCycle(Sched, id))
    /\ UNCHANGED <<now, feeds, nextSeq, lastOp, nextId, client, heap, probe>>

(* a setTimeout callback of id runs *)
TimeoutFire(id) ==
    /\ pending[id] > 0
    /\ CanBegin(id)
    /\ SetSched(executeAgentCycle([Sched EXCEPT !.pending[id] = @ - 1], id))
    /\ UNCHANGED <<now, feeds, nextSeq, lastOp, nextId, client, heap, probe>>

(* collectAll resolves; it catches what its collectors throw *)
CollectReturns ==
    /\ \E c \in BagToSet(cycles), empty \in BOOLEAN :
          /\ c.pc = "collect"
          /\ SetSched(collectReturned(Sched, c, empty))
    /\ UNCHANGED <<now, feeds, nextSeq, lastOp, nextId, client, heap, probe>>

(* processContent resolves: the text is stored and the cycle ends *)
ProcessReturns ==
    /\ nextSeq <= MaxCycleItems
    /\ \E c \in BagToSet(cycles), content \in FeedContents :
          /\ c.pc = "process"
          /\ feeds' = addItem(feeds, Holder(Sched, c.id).config.outputFormat, content,
                              now, now, nextSeq)
          /\ SetSched(cycleStored(Sched, c, now))
    /\ nextSeq' = nextSeq + 1
    /\ UNCHANGED <<now, lastOp, nextId, client, heap, probe>>

(* processContent rejects *)
ProcessThrows ==
    /\ \E c \in BagToSet(cycles) :
          /\ c.pc = "process"
          /\ SetSched(cycleFailed(Sched, c, now))
    /\ UNCHANGED <<now, feeds, nextSeq, lastOp, nextId, client, heap, probe>>

CleanupWith(maxAgeHours) ==
    /\ SetSched(cleanupOldInstances(Sched, maxAgeHours, now))
    /\ lastOp' = [name |-> "cleanupOldInstances", maxAgeHours |-> maxAgeHours,
                  removed |-> cleanupOldInstancesResult(Sched, maxAgeHours, now)]
    /\ UNCHANGED <<now, feeds, nextSeq, nextId, client, heap, probe>>

Cleanup == \E maxAgeHours \in CleanupAgeChoices : CleanupWith(maxAgeHours)

(* getStats is called; the ghost keeps what it returned *)
Stats ==
    /\ lastOp' = [name |-> "getStats", stats |-> getStats(Sched)]
    /\ UNCHANGED <<now, feeds, nextSeq, nextId, client, heap, probe>>
    /\ UNCHANGED schedOnlyVars

(* the clock advances by the default cleanup age *)
SchedTick ==
    /\ now \div CleanupMs < MaxDays
    /\ now' = now + CleanupMs
    /\ lastOp' = [name |-> "tick"]
    /\ UNCHANGED <<feeds, nextSeq, client, heap, probe>>
    /\ UNCHANGED schedOnlyVars

(* the clock advances by one millisecond *)
SchedTickMs ==
    /\ CanTickMs(now, CleanupMs)
    /\ now' = now + 1
    /\ lastOp' = [name |-> "tick"]
    /\ UNCHANGED <<feeds, nextSeq, client, heap, probe>>
    /\ UNCHANGED schedOnlyVars

Next ==
    \/ Create
    \/ \E id \in Ids : Start(id)
    \/ \E id \in Ids : Stop(id)
    \/ \E id \in Ids : Delete(id)
    \/ \E id \in Ids : UpdateConfig(id)
    \/ \E id \in Ids : IntervalFire(id)
    \/ \E id \in Ids : TimeoutFire(id)
    \/ CollectReturns
    \/ ProcessReturns
    \/ ProcessThrows

Spec == Init /\ [][Next]_vars

(* The registry over the days: instances are created, started, stopped and
   reconfigured, the clock advances, the hourly cleanup runs and the statistics
   are read; no timer fires *)
TimedNext ==
    \/ Create
    \/ \E id \in Ids : Start(id)
    \/ \E id \in Ids : Stop(id)
    \/ \E id \in Ids : UpdateConfig(id)
    \/ Cleanup
    \/ Stats
    \/ SchedTick
    \/ SchedTickMs

TimedSpec == Init /\ [][TimedNext]_vars

-----------------------------------------------------------------------------
(* The scheduler with one cycle followed at a time: a timer callback begins a
   cycle only when none is suspended *)

(* startInstance; a suspended cycle of an instance that is started belongs to
   an earlier run from then on *)
RunStart(id) ==
    /\ Arms(Sched, id) => pending[id] < MaxPending
    /\ SetSched(startInstance(Sched, id, now))
    /\ probe' = IF Arms(Sched, id) /\ InFlight(Sched, id) > 0
                THEN [probe EXCEPT !.stale = TRUE]
                ELSE probe
    /\ UNCHANGED <<now, feeds, nextSeq, lastOp, nextId, client, heap>>

(* updateInstanceConfig, which starts a running instance again *)
RunUpdateConfig(id) ==
    /\ Registered(Sched, id) /\ instances[id].status = "running"
          => pending[id] < MaxPending
    /\ \E newConfig \in Configs :
          SetSched(updateInstanceConfig(Sched, id, newConfig, now))
    /\ probe' = IF /\ Registered(Sched, id)
                   /\ instances[id].status = "running"
                   /\ InFlight(Sched, id) > 0
                THEN [probe EXCEPT !.stale = TRUE]
                ELSE probe
    /\ UNCHANGED <<now, feeds, nextSeq, lastOp, nextId, client, heap>>

(* the cycle that begins passes instance.config to collectAll *)
ProbeBegun(id) ==
    IF EntryGuard(Sched, id)
    THEN [collect |-> <<instances[id].config>>, process |-> <<>>, stale |-> FALSE]
    ELSE probe

(* a setInterval timer of id fires while no cycle is suspended *)
RunIntervalFire(id) ==
    /\ timers[id] > 0
    /\ cycles = EmptyBag
    /\ SetSched(executeAgentCycle(Sched, id))
    /\ probe' = ProbeBegun(id)
    /\ UNCHANGED <<now, feeds, nextSeq, lastOp, nextId, client, heap>>

(* a setTimeout callback of id runs while no cycle is suspended *)
RunTimeoutFire(id) ==
    /\ pending[id] > 0
    /\ cycles = EmptyBag
    /\ SetSched(executeAgentCycle([Sched EXCEPT !.pending[id] = @ - 1], id))
    /\ probe' = ProbeBegun(id)
    /\ UNCHANGED <<now, feeds, nextSeq, lastOp, nextId, client, heap>>

(* collectAll resolves; with items, the cycle passes instance.config to
   processContent *)
RunCollectReturns ==
    /\ \E c \in BagToSet(cycles), empty \in BOOLEAN :
          /\ c.pc = "collect"
          /\ SetSched(collectReturned(Sched, c, empty))
          /\ probe' = IF empty THEN ProbeNone
                      ELSE [probe EXCEPT !.process = <<Holder(Sched, c.id).config>>]
    /\ UNCHANGED <<now, feeds, nextSeq, lastOp, nextId, client, heap>>

(* processContent resolves: the text is stored and the cycle ends *)
RunProcessReturns ==
    /\ nextSeq <= MaxCycleItems
    /\ \E c \in BagToSet(cycles), content \in FeedContents :
          /\ c.pc = "process"
          /\ feeds' = addItem(feeds, Holder(Sched, c.id).config.outputFormat, content,
                              now, now, nextSeq)
          /\ SetSched(cycleStored(Sched, c, now))
    /\ nextSeq' = nextSeq + 1
    /\ probe' = ProbeNone
    /\ UNCHANGED <<now, lastOp, nextId, client, heap>>

(* processContent rejects *)
RunProcessThrows ==
    /\ \E c \in BagToSet(cycles) :
          /\ c.pc = "process"
          /\ SetSched(cycleFailed(Sched, c, now))
    /\ probe' = ProbeNone
    /\ UNCHANGED <<now, feeds, nextSeq, lastOp, nextId, client, heap>>

(* the clock advances by one millisecond *)
RunTickMs ==
    /\ CanTickMs(now, CleanupMs)
    /\ now' = now + 1
    /\ UNCHANGED <<feeds, nextSeq, lastOp, client, heap, probe>>
    /\ UNCHANGED schedOnlyVars

RunNext ==
    \/ Create
    \/ \E id \in Ids : RunStart(id)
    \/ \E id \in Ids : Stop(id)
    \/ \E id \in Ids : Delete(id)
    \/ \E id \in Ids : RunUpdateConfig(id)
    \/ \E id \in Ids : RunIntervalFire(id)
    \/ \E id \in Ids : RunTimeoutFire(id)
    \/ RunCollectReturns
    \/ RunProcessReturns
    \/ RunProcessThrows

RunSpec == Init /\ [][RunNext]_vars

(* The same with the clock advancing between the steps, and no instance
   reconfigured *)
ClockNext ==
    \/ Create
    \/ \E id \in Ids : RunStart(id)
    \/ \E id \in Ids : Stop(id)
    \/ \E id \in Ids : Delete(id)
    \/ \E id \in Ids : RunIntervalFire(id)
    \/ \E id \in Ids : RunTimeoutFire(id)
    \/ RunCollectReturns
    \/ RunProcessReturns
    \/ RunProcessThrows
    \/ RunTickMs

ClockSpec == Init /\ [][ClockNext]_vars

(* The scheduler left to itself over the days: instances are created and
   started, their cycles run and fail, the clock advances and the hourly cleanup
   runs; nobody stops, deletes or reconfigures an instance *)
UnattendedNext ==
    \/ Create
    \/ \E id \in Ids : RunStart(id)
    \/ \E id \in Ids : RunIntervalFire(id)
    \/ \E id \in Ids : RunTimeoutFire(id)
    \/ RunCollectReturns
    \/ RunProcessReturns
    \/ RunProcessThrows
    \/ Cleanup
    \/ SchedTick
    \/ SchedTickMs

UnattendedSpec == Init /\ [][UnattendedNext]_vars

-----------------------------------------------------------------------------
(* The registry and a caller that keeps the AgentConfig object it passes *)

(* instance.config as executeAgentCycle reads it: config.outputFormat and
   config.role.focusTopic, through the role object the config refers to *)
ConfigUsed(instance, h) ==
    [outputFormat |-> instance.config.outputFormat,
     focusTopic |-> h.roles[instance.config.role].focusTopic]

(* createInstance(config) with the caller's object *)
ConfigCreate ==
    /\ nextId \in Ids
    /\ SetSched(createInstance(Sched, nextId, heap.config, now))
    /\ nextId' = nextId + 1
    /\ UNCHANGED <<now, feeds, nextSeq, lastOp, client, heap, probe>>

(* updateInstanceConfig(id, config) with the caller's object *)
ConfigUpdate(id) ==
    /\ Registered(Sched, id) /\ instances[id].status = "running"
          => pending[id] < MaxPending
    /\ SetSched(updateInstanceConfig(Sched, id, heap.config, now))
    /\ UNCHANGED <<now, feeds, nextSeq, lastOp, nextId, client, heap, probe>>

(* the caller assigns config.outputFormat *)
CallerSetsFormat ==
    /\ \E format \in Formats : heap' = [heap EXCEPT !.config.outputFormat = format]
    /\ UNCHANGED <<now, feeds, nextSeq, lastOp, client, probe>>
    /\ UNCHANGED schedOnlyVars

(* the caller assigns config.role.focusTopic *)
CallerSetsTopic ==
    /\ \E topic \in Topics :
          heap' = [heap EXCEPT !.roles[heap.config.role].focusTopic = topic]
    /\ UNCHANGED <<now, feeds, nextSeq, lastOp, client, probe>>
    /\ UNCHANGED schedOnlyVars

(* the caller assigns another role object to config.role *)
CallerReplacesRole ==
    /\ \E ref \in RoleRefs : heap' = [heap EXCEPT !.config.role = ref]
    /\ UNCHANGED <<now, feeds, nextSeq, lastOp, client, probe>>
    /\ UNCHANGED schedOnlyVars

CallerMutates == CallerSetsFormat \/ CallerSetsTopic \/ CallerReplacesRole

ConfigNext ==
    \/ ConfigCreate
    \/ \E id \in Ids : ConfigUpdate(id)
    \/ \E id \in Ids : Start(id)
    \/ \E id \in Ids : Stop(id)
    \/ CallerSetsFormat
    \/ CallerSetsTopic
    \/ CallerReplacesRole

ConfigSpec == Init /\ [][ConfigNext]_vars

----------------------------------------------------------------------------
(* The client on its own: calls of generateResponse, their backend calls
   resolving or rejecting, and the clock advancing by the cooldown period *)

(* what the step did: the handler, the call it ran for, how the run ended, the
   attempts it began, the rank of the backend whose answer it handled (-1 when
   it handled none) and whether that answer was a rate-limit error *)
ClientOp(name, run, answered, rateLimited) ==
    [name |-> name, call |-> run.call, outcome |-> run.outcome, log |-> run.log,
     answered |-> answered, rateLimited |-> rateLimited]

Generate ==
    /\ client.started < Cardinality(CallIds)
    /\ Cardinality(client.calls) < MaxCalls
    /\ \E maxRetries \in RetryChoices :
          LET run == generateResponse(client, maxRetries, now)
          IN  /\ client' = Settle(run, run.call)
              /\ lastOp' = ClientOp("generateResponse", run, -1, FALSE)
    /\ UNCHANGED <<now, feeds, nextSeq, heap, probe>>
    /\ UNCHANGED schedOnlyVars

BackendResolves(id) ==
    /\ \E call \in client.calls :
          /\ call.id = id
          /\ LET run == callResolved(client, call, now)
             IN  /\ client' = Settle(run, call)
                 /\ lastOp' = ClientOp("resolved", run, call.rank, FALSE)
    /\ UNCHANGED <<now, feeds, nextSeq, heap, probe>>
    /\ UNCHANGED schedOnlyVars

BackendRejects(id) ==
    /\ \E call \in client.calls, error \in Errors :
          /\ call.id = id
          /\ LET run == callRejected(client, call, error, now)
             IN  /\ client' = Settle(run, call)
                 /\ lastOp' = ClientOp("rejected", run, call.rank, IsRateLimit(error))
    /\ UNCHANGED <<now, feeds, nextSeq, heap, probe>>
    /\ UNCHANGED schedOnlyVars

(* the backend call of a suspended call returns or throws *)
BackendResponds(id) == BackendResolves(id) \/ BackendRejects(id)

ClientTickJump ==
    /\ CanTickJump(now, CooldownMs)
    /\ now' = now + CooldownMs
    /\ lastOp' = [name |-> "tick"]
    /\ UNCHANGED <<feeds, nextSeq, client, heap, probe>>
    /\ UNCHANGED schedOnlyVars

ClientNext ==
    \/ Generate
    \/ \E id \in CallIds : BackendResolves(id)
    \/ \E id \in CallIds : BackendRejects(id)
    \/ ClientTickJump

ClientSpec == Init /\ [][ClientNext]_vars

(* every backend call returns or throws *)
ClientLiveSpec ==
    ClientSpec /\ \A id \in CallIds : WF_vars(BackendResponds(id))

----------------------------------------------------------------------------
(* Properties of the scheduler, checked under Spec *)

(* the step is a cycle of instance id running into its catch block *)
FailsFor(id) ==
    \E c \in BagToSet(cycles) :
        /\ c.id = id
        /\ c.pc = "process"
        /\ SetSched(cycleFailed(Sched, c, now))

(* C1: once a cycle of an instance has raised an error and the cycle routine has
   returned, the instance, if still in the registry, has status error and is
   counted under error by stats, and it keeps that status until start, delete
   or a config update. *)
C1_ErrorStatusAfterFailure ==
    [][\A id \in Ids :
          /\ FailsFor(id) /\ id \in DOMAIN instances' =>
                /\ instances'[id].status = "error"
                /\ getStats([instances |-> instances']).error >= 1
          /\ /\ id \in DOMAIN instances /\ instances[id].status = "error"
             /\ id \in DOMAIN instances'
             /\ ~(Start(id) \/ UpdateConfig(id))
             => instances'[id].status = "error"]_vars

(* C2: after a cycle of an instance has raised an error, and until start is
   called for it again, the instance has no live recurring timer and no timer
   fire gets a cycle past the entry guard (so none calls the Collector or
   stores an item for it). *)
C2_NoCycleAfterFailure ==
    /\ \A id \in Ids : since[id].failed => timers[id] = 0
    /\ \A c \in BagToSet(cycles) : ~c.afterFail

(* a cycle of a registered instance has failed while its one-shot timer was
   still pending and another cycle of it was suspended *)
C2_Witness ==
    \E id \in DOMAIN instances :
        /\ since[id].failed
        /\ pending[id] > 0
        /\ InFlight(Sched, id) > 0

(* C3: after stop(id) or delete(id) has returned, and until start(id) is called
   again, no invocation of the cycle routine for id passes the entry guard. *)
C3_NoCycleBeginsAfterStop ==
    \A c \in BagToSet(cycles) : ~c.afterStop

(* stop or delete has returned with a one-shot timer of the instance pending *)
C3_Witness ==
    \E id \in Ids :
        /\ since[id].stopped
        /\ ~since[id].failed
        /\ pending[id] > 0
        /\ id \notin DOMAIN instances

(* the step is the cycle c storing its item *)
StoresBy(c) ==
    /\ c.pc = "process"
    /\ nextSeq' = nextSeq + 1
    /\ BagCardinality(cycles') = BagCardinality(cycles) - 1
    /\ CopiesIn(c, cycles') = CopiesIn(c, cycles) - 1

(* C4 as claimed: once stop(id) has returned and start(id) is not called again,
   the Feed Store is never mutated on behalf of the instance. *)
C4_NoStoreAfterStop ==
    [][\A c \in BagToSet(cycles) : since[c.id].stopped => ~StoresBy(c)]_vars

(* C4 as amended: once stop(id) has returned and start(id) is not called again,
   the Feed Store is mutated on behalf of the instance only by cycles that had
   passed the entry guard before stop was called, once by each such cycle at
   most: a step that changes the store ends one suspended cycle, and that cycle
   began before the stop. *)
C4_OnlyInFlightCyclesStoreAfterStop ==
    [][feeds' # feeds =>
          \E c \in BagToSet(cycles) :
              /\ StoresBy(c)
              /\ Len(Flatten(feeds')) = Len(Flatten(feeds)) + 1
              /\ since[c.id].stopped => ~c.afterStop]_vars

(* stop has returned while a cycle of the instance was suspended in the
   Processor, and the store has room for its item *)
C4_Witness ==
    \E id \in DOMAIN instances :
        /\ since[id].stopped
        /\ ~since[id].failed
        /\ nextSeq <= MaxCycleItems
        /\ \E c \in BagToSet(cycles) : c.id = id /\ c.pc = "process" /\ ~c.afterStop

(* C5: between operations, every registered instance holds a recurring-timer
   handle exactly when its status is running, that handle is its only live
   recurring timer, and an instance that is not running or not registered has
   no live recurring timer. *)
C5_TimerIffRunning ==
    \A id \in Ids :
        IF id \in DOMAIN instances
        THEN /\ instances[id].cronJob <=> instances[id].status = "running"
             /\ timers[id] = IF instances[id].status = "running" THEN 1 ELSE 0
        ELSE timers[id] = 0

(* one instance runs on the timer of a restart while another has been stopped
   by a failed cycle *)
C5_Witness ==
    \E id, other \in DOMAIN instances :
        /\ instances[id].status = "running"
        /\ timers[id] = 1
        /\ InFlight(Sched, id) > 0
        /\ since[other].failed
        /\ timers[other] = 0

(* C23: the error status is terminal with respect to start: once a cycle of an
   instance has failed, start(id) does not return the instance to running for as
   long as it stays in the registry (a config update of an instance that is not
   running leaves its status alone). *)
C23_StartDoesNotReviveFailed ==
    [][\A id \in Ids :
          /\ Registered(Sched, id)
          /\ since[id].failed
          /\ Start(id)
          => instances'[id].status # "running"]_vars

(* C24: cycle executions of one instance are serialized: no two executions of the
   cycle routine for the same instance id are past the entry guard and
   unfinished at the same time. *)
C24_CyclesSerialized ==
    \A id \in Ids : InFlight(Sched, id) <= 1

(* C25: create adds exactly one instance, with status stopped and no timer, under
   an id that was not in the registry, and changes nothing else; on an empty
   registry, stats then reports total 1, stopped 1, running 0, error 0. *)
C25_CreateAddsOneStopped ==
    [][Create =>
          /\ nextId \notin DOMAIN instances
          /\ DOMAIN instances' = DOMAIN instances \cup {nextId}
          /\ \A id \in DOMAIN instances : instances'[id] = instances[id]
          /\ instances'[nextId].status = "stopped"
          /\ ~instances'[nextId].cronJob
          /\ instances'[nextId].lastUpdate = now
          /\ timers' = timers /\ pending' = pending /\ cycles' = cycles
          /\ detached' = detached /\ feeds' = feeds
          /\ instances = <<>> =>
                LET stats == getStats([instances |-> instances'])
                IN  /\ stats.total = 1 /\ stats.stopped = 1
                    /\ stats.running = 0 /\ stats.error = 0]_vars

(* create has just added a second instance next to one that is running *)
C25_Witness ==
    /\ nextId = 3
    /\ DOMAIN instances = {1, 2}
    /\ instances[1].status = "running"
    /\ instances[2].status = "stopped"
    /\ since[2] = NoGhost
    /\ timers[2] = 0 /\ pending[2] = 0

(* C21: the configuration an instance holds is a value copy of the object passed
   to create or updateConfig: no assignment the caller makes afterwards to that
   object or to its nested objects changes the configuration the instance's
   cycles read. *)
C21_StoredConfigIsValueCopy ==
    [][CallerMutates =>
          \A id \in DOMAIN instances :
             ConfigUsed(instances'[id], heap') = ConfigUsed(instances[id], heap)]_vars

(* C22: cleanup(maxAgeHours) removes exactly the stopped instances whose last
   update is strictly older than now minus maxAgeHours hours, leaves every other
   instance as it was, and returns the number of instances it removed. *)
C22_CleanupRemovesExactlyOld ==
    [][\A maxAgeHours \in CleanupAgeChoices :
          CleanupWith(maxAgeHours) =>
             LET old == {id \in DOMAIN instances :
                            /\ instances[id].status = "stopped"
                            /\ instances[id].lastUpdate < now - maxAgeHours * HourMs}
             IN  /\ DOMAIN instances' = DOMAIN instances \ old
                 /\ \A id \in DOMAIN instances' :
                       /\ instances'[id] = instances[id]
                       /\ timers'[id] = timers[id]
                       /\ pending'[id] = pending[id]
                 /\ lastOp'.removed = Cardinality(old)]_vars

(* the default cleanup has removed one stopped instance and has kept another
   whose last update is exactly the default age old *)
C22_Witness ==
    /\ lastOp.name = "cleanupOldInstances"
    /\ lastOp.maxAgeHours = DefaultCleanupHours
    /\ lastOp.removed = 1
    /\ \E id \in DOMAIN instances :
          /\ instances[id].status = "stopped"
          /\ instances[id].lastUpdate = now - CleanupMs

(* what C26 says of one result of getStats over the registry *)
StatsConsistent(stats) ==
    /\ stats.total = stats.running + stats.stopped + stats.error
    /\ stats.total = Cardinality(DOMAIN instances)
    /\ instances = <<>> =>
          stats.oldestInstance = "null" /\ stats.newestInstance = "null"
    /\ instances # <<>> => stats.oldestInstance <= stats.newestInstance

(* C26: stats() changes nothing; its total is the sum of its running, stopped
   and error counts and the number of registered instances; its oldest last
   update is no later than its newest when there are instances, and both are
   null when there are none. *)
C26_StatsConsistent ==
    /\ [](StatsConsistent(getStats(Sched)))
    /\ [][Stats =>
             /\ StatsConsistent(lastOp'.stats)
             /\ UNCHANGED <<now, feeds, instances, detached, timers, pending, cycles,
                            nextId, client, heap, probe>>]_vars

(* getStats has reported a running and a stopped instance whose last updates
   differ *)
C26_Witness ==
    /\ lastOp.name = "getStats"
    /\ lastOp.stats = getStats(Sched)
    /\ lastOp.stats.total = 2
    /\ lastOp.stats.running = 1
    /\ lastOp.stats.stopped = 1
    /\ lastOp.stats.oldestInstance < lastOp.stats.newestInstance

(* the fields of the scheduler the program holds, without the ghosts *)
Real(s) == [instances |-> s.instances, detached |-> s.detached,
            timers |-> s.timers, pending |-> s.pending, cycles |-> s.cycles]

(* C29: start(id) returns false and changes no state when id is not in the
   registry; for an instance that is running it returns true, arms no further
   recurring timer and schedules no further one-shot cycle; otherwise it sets
   the status to running, arms one recurring timer and schedules one one-shot
   cycle. *)
C29_StartOutcomes ==
    \A id \in Ids :
        LET after == startInstance(Sched, id, now)
            returned == startInstanceResult(Sched, id)
        IN  IF id \notin DOMAIN instances
            THEN ~returned /\ Real(after) = Real(Sched)
            ELSE IF instances[id].status = "running"
            THEN returned /\ Real(after) = Real(Sched)
            ELSE /\ returned
                 /\ after.instances[id].status = "running"
                 /\ after.instances[id].cronJob
                 /\ after.timers[id] = timers[id] + 1
                 /\ after.pending[id] = pending[id] + 1
                 /\ after.timers[id] = 1
                 /\ \A other \in Ids \ {id} :
                       /\ after.timers[other] = timers[other]
                       /\ after.pending[other] = pending[other]
                 /\ \A other \in DOMAIN instances \ {id} :
                       after.instances[other] = instances[other]
                 /\ after.cycles = cycles

(* start has armed the timers of an instance that had been stopped, its one-shot
   cycle is still to come, and the registry has lost the other instance *)
C29_Witness ==
    /\ \E id \in DOMAIN instances :
          /\ instances[id].status = "running"
          /\ since[id] = NoGhost
          /\ pending[id] = 1 /\ timers[id] = 1
    /\ \E id \in Ids : id < nextId /\ id \notin DOMAIN instances

(* C30: stop(id) on a registered instance leaves it stopped with no recurring
   timer and returns true; a second stop(id) leaves status and timer as the
   first did; stop on an unknown id returns false and changes no state. *)
C30_StopOutcomes ==
    \A id \in Ids :
        LET after == stopInstance(Sched, id, now)
            again == stopInstance(after, id, now)
        IN  IF id \notin DOMAIN instances
            THEN ~stopInstanceResult(Sched, id) /\ Real(after) = Real(Sched)
            ELSE /\ stopInstanceResult(Sched, id)
                 /\ after.instances[id].status = "stopped"
                 /\ ~after.instances[id].cronJob
                 /\ after.timers[id] = 0
                 /\ stopInstanceResult(after, id)
                 /\ again.instances[id].status = after.instances[id].status
                 /\ again.instances[id].cronJob = after.instances[id].cronJob
                 /\ again.timers = after.timers
                 /\ after.pending = pending /\ after.cycles = cycles
                 /\ \A other \in DOMAIN instances \ {id} :
                       after.instances[other] = instances[other]

(* stop has returned for an instance whose timer was armed, while another
   instance is running and a third id is unknown *)
C30_Witness ==
    /\ \E id \in DOMAIN instances :
          /\ instances[id].status = "stopped"
          /\ since[id].stopped
          /\ ~since[id].failed
          /\ timers[id] = 0
    /\ \E id \in DOMAIN instances : instances[id].status = "running"

(* C31: delete(id) on a registered instance cancels its recurring timer, removes
   it from the registry and returns true; lookup, start, stop and updateConfig
   on that id then report not-found or false and change nothing; delete on an
   absent id returns false and changes no state. *)
C31_DeleteOutcomes ==
    \A id \in Ids :
        LET after == deleteInstance(Sched, id, now)
        IN  IF id \notin DOMAIN instances
            THEN ~deleteInstanceResult(Sched, id) /\ Real(after) = Real(Sched)
            ELSE /\ deleteInstanceResult(Sched, id)
                 /\ DOMAIN after.instances = DOMAIN instances \ {id}
                 /\ after.timers[id] = 0
                 /\ getInstance(after, id) = "null"
                 /\ ~startInstanceResult(after, id)
                 /\ ~stopInstanceResult(after, id)
                 /\ ~updateInstanceConfigResult(after, id)
                 /\ ~deleteInstanceResult(after, id)
                 /\ Real(startInstance(after, id, now)) = Real(after)
                 /\ Real(stopInstance(after, id, now)) = Real(after)
                 /\ \A newConfig \in Configs :
                       Real(updateInstanceConfig(after, id, newConfig, now)) = Real(after)
                 /\ Real(deleteInstance(after, id, now)) = Real(after)
                 /\ \A other \in DOMAIN instances \ {id} :
                       /\ after.instances[other] = instances[other]
                       /\ after.timers[other] = timers[other]

(* delete has removed an instance that a suspended cycle still holds, and the
   other instance is running with its timer armed *)
C31_Witness ==
    /\ \E id \in DOMAIN detached :
          /\ id \notin DOMAIN instances
          /\ timers[id] = 0
          /\ InFlight(Sched, id) > 0
    /\ \E id \in DOMAIN instances :
          instances[id].status = "running" /\ timers[id] = 1

(* C32: updateConfig(id, newConfig) keeps the instance under its id and replaces
   its config; an instance that was running is running with exactly one
   recurring timer afterwards, any other keeps its status and has no timer;
   for an unknown id it returns false and changes nothing. *)
C32_UpdateConfigOutcomes ==
    \A id \in Ids, newConfig \in Configs :
        LET after == updateInstanceConfig(Sched, id, newConfig, now)
        IN  IF id \notin DOMAIN instances
            THEN ~updateInstanceConfigResult(Sched, id) /\ Real(after) = Real(Sched)
            ELSE /\ updateInstanceConfigResult(Sched, id)
                 /\ DOMAIN after.instances = DOMAIN instances
                 /\ after.instances[id].config = newConfig
                 /\ IF instances[id].status = "running"
                    THEN /\ after.instances[id].status = "running"
                         /\ after.instances[id].cronJob
                         /\ after.timers[id] = 1
                    ELSE /\ after.instances[id].status = instances[id].status
                         /\ ~after.instances[id].cronJob
                         /\ after.timers[id] = 0
                 /\ \A other \in DOMAIN instances \ {id} :
                       /\ after.instances[other] = instances[other]
                       /\ after.timers[other] = timers[other]

(* a running instance with its timer armed and a cycle in flight has the config
   a call of updateConfig gave it, next to a stopped instance *)
C32_Witness ==
    \E id \in DOMAIN instances, other \in DOMAIN instances :
        /\ instances[id].status = "running"
        /\ timers[id] = 1
        /\ InFlight(Sched, id) > 0
        /\ since[id] = NoGhost
        /\ instances[id].config.outputFormat = "question"
        /\ instances[other].status = "stopped"
        /\ instances[other].config.outputFormat = "normal"

(* C33: a cycle that passed the entry guard, collected at least one item and
   whose Processor returned normally appends exactly one item to the feed
   store, in the feed of the instance config's output category and in no other,
   then sets the instance's lastUpdate and does not touch its status, which is
   running unless the instance was stopped meanwhile. *)
C33_SuccessfulCycleStoresOne ==
    [][RunProcessReturns =>
          \A c \in BagToSet(cycles) :
             LET format == Holder(Sched, c.id).config.outputFormat
             IN  /\ TotalItems(feeds') = TotalItems(feeds) + 1
                 /\ HasFeed(feeds', format)
                 /\ getFeed(feeds', format).items[1].seq = nextSeq
                 /\ getFeed(feeds', format).items[1].category = format
                 /\ Len(getFeed(feeds', format).items) =
                       IF HasFeed(feeds, format)
                       THEN Len(getFeed(feeds, format).items) + 1 ELSE 1
                 /\ Len(feeds') = Len(feeds) + IF HasFeed(feeds, format) THEN 0 ELSE 1
                 /\ \A i \in 1..Len(feeds) :
                       feeds[i].format # format => feeds'[i] = feeds[i]
                 /\ Registered(Sched, c.id) =>
                       /\ instances'[c.id].lastUpdate = now
                       /\ instances'[c.id].status = instances[c.id].status
                       /\ ~since[c.id].stopped => instances'[c.id].status = "running"
                       /\ timers'[c.id] = timers[c.id]
                 /\ cycles' = EmptyBag]_vars

(* a cycle has stored its item a millisecond after its instance was started:
   the instance is running and carries the time of the store *)
C33_Witness ==
    /\ now > 0
    /\ cycles = EmptyBag
    /\ \E id \in DOMAIN instances :
          /\ instances[id].status = "running"
          /\ since[id] = NoGhost
          /\ pending[id] = 0
          /\ instances[id].lastUpdate = now
          /\ HasFeed(feeds, instances[id].config.outputFormat)
          /\ getFeed(feeds, instances[id].config.outputFormat).items[1].pubDate = now

(* every instance other than a is in the scheduler state after as it is now:
   status, config, lastUpdate and timer *)
OthersKept(a, after) ==
    \A b \in DOMAIN instances \ {a} :
        /\ b \in DOMAIN after.instances
        /\ after.instances[b] = instances[b]
        /\ after.timers[b] = timers[b]

(* C34: instances are isolated: start, stop, delete and updateConfig on an
   instance, and every step of one of its cycles (its beginning, an empty
   collection, a store, a failure), leave the status, config, lastUpdate and
   timer of every other instance unchanged; a cycle that fails ends as the
   others do. *)
C34_InstancesIsolated ==
    /\ [](\A a \in Ids :
            /\ OthersKept(a, startInstance(Sched, a, now))
            /\ OthersKept(a, stopInstance(Sched, a, now))
            /\ OthersKept(a, deleteInstance(Sched, a, now))
            /\ \A newConfig \in Configs :
                  OthersKept(a, updateInstanceConfig(Sched, a, newConfig, now)))
    /\ [][/\ \A a \in Ids :
               RunIntervalFire(a) \/ RunTimeoutFire(a) => OthersKept(a, Sched')
          /\ \A c \in BagToSet(cycles) :
               /\ RunCollectReturns \/ RunProcessReturns \/ RunProcessThrows
                     => OthersKept(c.id, Sched')
               /\ RunProcessThrows => cycles' = EmptyBag]_vars

(* the cycle of one instance has failed at a later time than the other instance
   was started, and the other instance is running with its timer armed *)
C34_Witness ==
    \E a \in DOMAIN instances, b \in DOMAIN instances :
        /\ a # b
        /\ since[a].failed
        /\ instances[a].status = "stopped"
        /\ instances[b].status = "running"
        /\ timers[b] = 1
        /\ instances[b].lastUpdate < instances[a].lastUpdate

(* C38: one cycle uses one configuration throughout: the config it passes to
   the Processor is the config it passed to the Collector, and the category it
   stores its result under is that config's output category, also when
   updateConfig runs while the cycle is suspended. *)
C38_OneConfigPerCycle ==
    /\ [](probe.process # <<>> => probe.process = probe.collect)
    /\ [][RunProcessReturns =>
             /\ HasFeed(feeds', probe.collect[1].outputFormat)
             /\ getFeed(feeds', probe.collect[1].outputFormat).items[1].seq = nextSeq]_vars

(* C39: a cycle affects only the run in which it began: when its instance has
   been started again while the cycle was in flight (by stop and start, or by
   updateConfig), the failure of that cycle neither cancels the recurring timer
   of the new run nor changes the status of the new run. *)
C39_OldCycleSparesNewRun ==
    [][\A c \in BagToSet(cycles) :
          /\ RunProcessThrows
          /\ probe.stale
          /\ Registered(Sched, c.id)
          /\ instances[c.id].status = "running"
          => /\ instances'[c.id].status = "running"
             /\ timers'[c.id] = timers[c.id]]_vars

(* C40: an instance whose cycle failed is never removed by the background
   cleanup: with no stop and no delete called, the cleanup at the default age
   leaves every instance whose cycle has failed since its last start in the
   registry, however much time has passed. *)
C40_CleanupSparesFailed ==
    [][\A id \in DOMAIN instances :
          since[id].failed /\ CleanupWith(DefaultCleanupHours)
             => id \in DOMAIN instances']_vars

(* the step is the cycle c returning because collectAll gave it no item *)
EndsEmpty(c) ==
    /\ c.pc = "collect"
    /\ BagCardinality(cycles') = BagCardinality(cycles) - 1
    /\ CopiesIn(c, cycles') = CopiesIn(c, cycles) - 1

(* C20: a cycle in which the Collector returns an empty list calls no Processor
   and mutates no feed, and leaves the instance as it was: status running, timer
   armed, lastUpdate unchanged. *)
C20_EmptyCycleChangesNothing ==
    [][\A c \in BagToSet(cycles) :
          EndsEmpty(c) =>
              /\ feeds' = feeds /\ nextSeq' = nextSeq
              /\ instances' = instances
              /\ timers' = timers /\ pending' = pending
              /\ \A d \in BagToSet(cycles') :
                    d.pc = "process" => CopiesIn(d, cycles') = CopiesIn(d, cycles)
              /\ Registered(Sched, c.id) /\ instances[c.id].status = "running" =>
                    /\ instances'[c.id].status = "running"
                    /\ instances'[c.id].cronJob
                    /\ timers'[c.id] = 1]_vars

(* a cycle of a running instance with its timer armed is suspended in the
   Collector, whose result may be empty *)
C20_Witness ==
    \E c \in BagToSet(cycles) :
        /\ c.pc = "collect"
        /\ Registered(Sched, c.id)
        /\ instances[c.id].status = "running"
        /\ timers[c.id] = 1
        /\ feeds # <<>>

----------------------------------------------------------------------------
(* The feed store on its own *)

(* A feed one item short of the limit, filled by maxItemsPerFeed - 1 appends at
   consecutive milliseconds, the last of them at the initial instant. *)
FilledFeed(format, n) ==
    [format |-> format,
     lastUpdated |-> 0,
     items |-> [k \in 1..n |-> NewItem(format, 1, 1 - k, 1 - k)]]

(* the store as constructed *)
FeedInit ==
    /\ now = 0
    /\ nextSeq = 1
    /\ feeds = <<>>
    /\ lastOp = [name |-> "init"]
    /\ SchedInit
    /\ ClientInit
    /\ HeapInit
    /\ ProbeInit

(* the store with one feed about to reach the limit *)
FullFeedInit ==
    /\ now = 0
    /\ nextSeq = 1
    /\ feeds = <<FilledFeed("normal", maxItemsPerFeed - 1)>>
    /\ lastOp = [name |-> "init"]
    /\ SchedInit
    /\ ClientInit
    /\ HeapInit
    /\ ProbeInit

RetentionMs == DefaultRetentionHours * HourMs

TickMs ==
    /\ CanTickMs(now, RetentionMs)
    /\ now' = now + 1
    /\ lastOp' = [name |-> "tick"]
    /\ UNCHANGED <<feeds, nextSeq>>
    /\ UNCHANGED schedOnlyVars
    /\ UNCHANGED <<client, heap, probe>>

TickJump ==
    /\ CanTickJump(now, RetentionMs)
    /\ now' = now + RetentionMs
    /\ lastOp' = [name |-> "tick"]
    /\ UNCHANGED <<feeds, nextSeq>>
    /\ UNCHANGED schedOnlyVars
    /\ UNCHANGED <<client, heap, probe>>

FeedAppend ==
    /\ nextSeq <= MaxAppends
    /\ \E format \in Formats, content \in FeedContents,
          t2 \in SecondReadings(now, RetentionMs) :
          /\ feeds' = addItem(feeds, format, content, now, t2, nextSeq)
          /\ now' = t2
          /\ lastOp' = [name |-> "addItem", format |-> format]
    /\ nextSeq' = nextSeq + 1
    /\ UNCHANGED schedOnlyVars
    /\ UNCHANGED <<client, heap, probe>>

FeedPurge ==
    /\ \E maxAgeHours \in AgeChoices :
          /\ feeds' = clearOldItems(feeds, maxAgeHours, now)
          /\ lastOp' = [name |-> "clearOldItems", maxAgeHours |-> maxAgeHours]
    /\ UNCHANGED <<now, nextSeq>>
    /\ UNCHANGED schedOnlyVars
    /\ UNCHANGED <<client, heap, probe>>

FeedNext == TickMs \/ TickJump \/ FeedAppend \/ FeedPurge

FeedSpec == FeedInit /\ [][FeedNext]_vars

FullFeedSpec == FullFeedInit /\ [][FeedNext]_vars

----------------------------------------------------------------------------
(* Properties of the feed store: C6 and C7 are checked under FullFeedSpec,
   C8, C9 and C10 under FeedSpec *)

AllItems(fs) == {Flatten(fs)[k] : k \in 1..Len(Flatten(fs))}

(* C6: after every append and every purge, each category feed holds at most
   maxItemsPerFeed (50) items. *)
C6_FeedLengthBounded ==
    \A i \in 1..Len(feeds) : Len(feeds[i].items) <= maxItemsPerFeed

(* an append has just hit a full feed: the feed is at the limit and its oldest
   stored item was dropped *)
C6_Witness ==
    /\ lastOp.name = "addItem"
    /\ \E i \in 1..Len(feeds) :
          /\ feeds[i].format = lastOp.format
          /\ Len(feeds[i].items) = maxItemsPerFeed
          /\ feeds[i].items[1].seq = nextSeq - 1
          /\ feeds[i].items[maxItemsPerFeed].seq > 2 - maxItemsPerFeed

(* C7: every category feed is ordered newest-first by insertion: the item an
   append stored is at index 0, and the items of a feed stay in the relative
   order of their insertion through appends, truncation and purges. *)
C7_NewestFirstByInsertion ==
    /\ \A i \in 1..Len(feeds) :
          \A j \in 1..Len(feeds[i].items) - 1 :
              feeds[i].items[j].seq > feeds[i].items[j + 1].seq
    /\ lastOp.name = "addItem" =>
          /\ HasFeed(feeds, lastOp.format)
          /\ getFeed(feeds, lastOp.format).items[1].seq = nextSeq - 1

(* an append onto a feed that a purge has cut down, next to an item stored at
   the same clock reading *)
C7_Witness ==
    /\ lastOp.name = "addItem"
    /\ \E i \in 1..Len(feeds) :
          /\ feeds[i].format = lastOp.format
          /\ Len(feeds[i].items) = 3
          /\ feeds[i].items[1].pubDate = feeds[i].items[2].pubDate
          /\ feeds[i].items[2].pubDate > feeds[i].items[3].pubDate
          /\ feeds[i].items[1].seq = nextSeq - 1

(* C35: an append to a feed that holds maxItemsPerFeed items evicts exactly one
   item, the one at the tail: the feed afterwards is the new item followed by
   the previous first maxItemsPerFeed - 1 items; an append to a shorter feed
   evicts nothing, and no append changes another feed. *)
C35_EvictsOnlyTail ==
    [][lastOp'.name = "addItem" /\ nextSeq' = nextSeq + 1 =>
          LET format == lastOp'.format
              new == getFeed(feeds', format).items
          IN  /\ HasFeed(feeds', format)
              /\ new[1].seq = nextSeq
              /\ IF HasFeed(feeds, format)
                 THEN LET old == getFeed(feeds, format).items
                      IN  IF Len(old) >= maxItemsPerFeed
                          THEN new = <<new[1]>> \o SubSeq(old, 1, maxItemsPerFeed - 1)
                          ELSE new = <<new[1]>> \o old
                 ELSE Len(new) = 1
              /\ \A i \in 1..Len(feeds) :
                    feeds[i].format # format => feeds'[i] = feeds[i]]_vars

(* two appends have each hit the full feed: the two oldest items are gone and
   the third oldest is at the tail *)
C35_Witness ==
    /\ lastOp.name = "addItem"
    /\ \E i \in 1..Len(feeds) :
          /\ feeds[i].format = lastOp.format
          /\ Len(feeds[i].items) = maxItemsPerFeed
          /\ feeds[i].items[1].seq = 3
          /\ feeds[i].items[2].seq = 2
          /\ feeds[i].items[maxItemsPerFeed].seq = 4 - maxItemsPerFeed

(* C8: within one category feed no two items have the same identifier, also
   when appends to the category happen at the same clock reading. *)
C8_IdsUniqueInFeed ==
    \A i \in 1..Len(feeds) :
        \A j, k \in 1..Len(feeds[i].items) :
            j # k => feeds[i].items[j].id # feeds[i].items[k].id

(* C9: every item's publish timestamp is at most the lastUpdated timestamp of
   the feed that holds it. *)
C9_PubDateAtMostLastUpdated ==
    \A i \in 1..Len(feeds) :
        \A k \in 1..Len(feeds[i].items) :
            feeds[i].items[k].pubDate <= feeds[i].lastUpdated

(* an append onto an existing feed whose second clock reading came later than
   the item's timestamp *)
C9_Witness ==
    /\ lastOp.name = "addItem"
    /\ \E i \in 1..Len(feeds) :
          /\ feeds[i].format = lastOp.format
          /\ Len(feeds[i].items) >= 2
          /\ feeds[i].items[1].seq = nextSeq - 1
          /\ feeds[i].items[1].pubDate > feeds[i].items[2].pubDate
          /\ feeds[i].lastUpdated > feeds[i].items[1].pubDate

LimitChoices == 0..MaxLimit \cup {TotalItems(feeds), TotalItems(feeds) + 1}

SortedByPubDateDesc(r) ==
    \A j, k \in 1..Len(r) : j < k => r[j].pubDate >= r[k].pubDate

(* C10: latest(N) returns items of the store sorted by publish timestamp
   descending, min(N, total) of them, for every N >= 0. *)
C10_LatestSortedAndCounted ==
    LET all == AllItems(feeds)
        total == TotalItems(feeds)
    IN  \A limit \in LimitChoices :
            LET r == getLatestItems(feeds, limit)
            IN  /\ Len(r) = Min(limit, total)
                /\ SortedByPubDateDesc(r)
                /\ \A k \in 1..Len(r) : r[k] \in all
                /\ limit >= total => \A x \in all : \E k \in 1..Len(r) : r[k] = x

(* two categories whose merged items are not in timestamp order, with a limit
   that cuts the result short *)
C10_Witness ==
    /\ Len(feeds) = 2
    /\ ~SortedByPubDateDesc(Flatten(feeds))
    /\ TotalItems(feeds) > 2
    /\ getLatestItems(feeds, 2)[1].category # getLatestItems(feeds, 2)[2].category

(* the place of a stored item in the merged input of getLatestItems: the feeds
   in creation order, each feed's items in feed order *)
MergedPlace(item) ==
    CHOOSE k \in 1..TotalItems(feeds) : Flatten(feeds)[k].seq = item.seq

(* C36: latest(limit) is stable on ties: items with equal publish timestamps
   appear in the result in the same relative order as in the merged input
   (categories in creation order, each category's items in feed order), and the
   result for a limit is the beginning of the result for any larger limit. *)
C36_LatestStableOnTies ==
    \A limit \in LimitChoices :
        LET r == getLatestItems(feeds, limit)
            whole == getLatestItems(feeds, TotalItems(feeds))
        IN  /\ \A j, k \in 1..Len(r) :
                  j < k /\ r[j].pubDate = r[k].pubDate
                     => MergedPlace(r[j]) < MergedPlace(r[k])
            /\ r = SubSeq(whole, 1, Len(r))

(* two categories hold items of the same publish timestamp, behind an older item
   of the first category in the merged input *)
C36_Witness ==
    /\ Len(feeds) = 2
    /\ \E j \in 1..Len(feeds[1].items), k \in 1..Len(feeds[2].items) :
          /\ feeds[1].items[j].pubDate = feeds[2].items[k].pubDate
          /\ j < Len(feeds[1].items)
          /\ feeds[1].items[Len(feeds[1].items)].pubDate < feeds[2].items[k].pubDate

----------------------------------------------------------------------------
(* Properties of the purge, checked under FeedSpec *)

(* the step is clearOldItems(maxAgeHours) *)
Purges(maxAgeHours) ==
    /\ lastOp'.name = "clearOldItems"
    /\ lastOp'.maxAgeHours = maxAgeHours

(* C11: purgeOlderThan(h) removes exactly the items whose publish time is older
   than now - h and keeps every other item; an item whose publish time equals
   now - h is kept. *)
C11_PurgeRemovesExactlyOlder ==
    [][\A h \in AgeChoices :
          Purges(h) =>
              /\ Len(feeds') = Len(feeds)
              /\ \A i \in 1..Len(feeds) :
                    feeds'[i].items =
                        SelectSeq(feeds[i].items,
                                  LAMBDA item : item.pubDate >= now - h * HourMs)]_vars

(* C12: purgeOlderThan is idempotent: a second call with the same max age and
   no clock advance leaves the store as the first call left it; and between
   appends a purge never removes an item newer than the cutoff. *)
C12_PurgeIdempotentKeepsNewer ==
    [][\A h \in AgeChoices :
          Purges(h) =>
              /\ clearOldItems(feeds', h, now') = feeds'
              /\ \A x \in AllItems(feeds) :
                    x.pubDate > now - h * HourMs => x \in AllItems(feeds')]_vars

(* a purge between appends has removed an item and kept a newer one *)
C12_Witness ==
    /\ lastOp.name = "clearOldItems"
    /\ TotalItems(feeds) >= 1
    /\ TotalItems(feeds) < nextSeq - 1
    /\ \E x \in AllItems(feeds) : x.seq = nextSeq - 1 /\ x.seq > 1

(* C13: a category created by an append stays in the store, in the stats and
   in the per-category lookup, through every append and purge, also when a purge
   empties it; a purge leaves the metadata of every category unchanged. *)
C13_CategoryNeverDropped ==
    [][/\ \A i \in 1..Len(feeds) :
             /\ HasFeed(feeds', feeds[i].format)
             /\ feeds[i].format \in DOMAIN getFeedStats(feeds')
             /\ getFeed(feeds', feeds[i].format).format = feeds[i].format
       /\ lastOp'.name = "clearOldItems" =>
             /\ Len(feeds') = Len(feeds)
             /\ \A i \in 1..Len(feeds) :
                   /\ feeds'[i].format = feeds[i].format
                   /\ feeds'[i].lastUpdated = feeds[i].lastUpdated]_vars

(* a purge has emptied a category that an append had created *)
C13_Witness ==
    /\ lastOp.name = "clearOldItems"
    /\ \E i \in 1..Len(feeds) :
          /\ feeds[i].items = <<>>
          /\ getFeedStats(feeds)[feeds[i].format].itemCount = 0

----------------------------------------------------------------------------
(* Properties of the client: C14 is checked under ClientLiveSpec, the others
   under ClientSpec *)

ClientOps == {"generateResponse", "resolved", "rejected"}

Suspended(id) == \E call \in client.calls : call.id = id

Skips(log) == Len(SelectSeq(log, LAMBDA a : a.kind = "skip"))

(* C14: generate terminates after at most maxRetries attempts: every iteration of
   its loop returns a result or consumes one attempt, it raises the
   exhausted-retries error exactly when maxRetries attempts have failed, and a
   call whose backend calls all return or throw comes to an end. *)
C14_GenerateTerminates ==
    /\ [](/\ \A call \in client.calls : call.attempts < call.maxRetries
          /\ lastOp.name \in ClientOps =>
                /\ lastOp.call.attempts <= lastOp.call.maxRetries
                /\ Skips(lastOp.log) <= lastOp.call.attempts
                /\ Len(lastOp.log) <= Skips(lastOp.log) + 1
                /\ lastOp.outcome = "exhausted" <=>
                       lastOp.call.attempts = lastOp.call.maxRetries
                /\ lastOp.outcome = "await" <=> Len(lastOp.log) = Skips(lastOp.log) + 1)
    /\ \A id \in CallIds : Suspended(id) ~> ~Suspended(id)

(* a call with the default budget has thrown the exhausted-retries error after
   a failed backend call and cooldown skips *)
C14_Witness ==
    /\ lastOp.name = "rejected"
    /\ lastOp.outcome = "exhausted"
    /\ lastOp.call.maxRetries = DefaultMaxRetries
    /\ Skips(lastOp.log) >= 1

WorstRank == Len(models) - 1

AnyCooldown(c, t) == \E r \in Ranks : InCooldown(c, r, t)

(* C15: after an attempt on backend 0 has failed with a rate-limit error, and
   as long as backend 0 is in cooldown, the next attempt, of the same call or
   of another, targets a backend other than backend 0: the cursor is off rank 0
   and no attempt begun in the meantime targeted rank 0. *)
C15_NextAttemptAvoidsRateLimitedBest ==
    InCooldown(client, 0, now) =>
        /\ client.currentModelIndex # 0
        /\ lastOp.name \in ClientOps =>
              \A k \in 1..Len(lastOp.log) : lastOp.log[k].rank # 0

(* the backend call on rank 0 has just failed with a rate-limit error and the
   call went on to its next attempt *)
C15_Witness ==
    /\ lastOp.name = "rejected"
    /\ lastOp.rateLimited
    /\ lastOp.answered = 0
    /\ lastOp.log # <<>>
    /\ InCooldown(client, 0, now)

(* C16: a backend is never invoked while it is in cooldown: an attempt whose
   current-rank backend is in cooldown calls no backend, counts as a failed
   attempt and moves the cursor one rank worse unless it is at the worst
   rank. *)
C16_NoCallInCooldown ==
    [][lastOp'.name \in ClientOps =>
          LET log == lastOp'.log
              next(k) == IF k < Len(log) THEN log[k + 1].rank
                         ELSE client'.currentModelIndex
              before == IF lastOp'.name = "generateResponse" THEN 0
                        ELSE (CHOOSE call \in client.calls :
                                  call.id = lastOp'.call.id).attempts
                             + (IF lastOp'.name = "rejected" THEN 1 ELSE 0)
          IN  /\ \A k \in 1..Len(log) :
                    IF InCooldown(client', log[k].rank, now')
                    THEN /\ log[k].kind = "skip"
                         /\ next(k) = Min(log[k].rank + 1, WorstRank)
                    ELSE log[k].kind = "call"
              /\ lastOp'.call.attempts = before + Skips(log)]_vars

(* an attempt found its backend in cooldown below the worst rank, and the next
   attempt called the backend one rank worse *)
C16_Witness ==
    /\ lastOp.name \in ClientOps
    /\ \E k \in 1..Len(lastOp.log) - 1 :
          /\ lastOp.log[k].kind = "skip"
          /\ lastOp.log[k].rank < WorstRank
          /\ lastOp.log[k + 1].kind = "call"

(* C17: on a successful backend call the current rank moves exactly one step
   better if and only if it is > 0 and no backend of the list is in cooldown at
   that moment, and is unchanged otherwise; the result is returned and the call
   makes no further attempt. *)
C17_UpgradeOnSuccess ==
    [][lastOp'.name = "resolved" =>
          /\ client'.currentModelIndex =
                IF client.currentModelIndex > 0 /\ ~AnyCooldown(client, now)
                THEN client.currentModelIndex - 1
                ELSE client.currentModelIndex
          /\ lastOp'.outcome = "returned"
          /\ lastOp'.log = <<>>
          /\ client'.calls = {call \in client.calls : call.id # lastOp'.call.id}
          /\ client'.rateLimitCooldown = client.rateLimitCooldown]_vars

(* a backend call on the worst rank has succeeded with no backend in cooldown,
   and the cursor has moved to the rank above *)
C17_Witness ==
    /\ lastOp.name = "resolved"
    /\ lastOp.answered = WorstRank
    /\ client.currentModelIndex = WorstRank - 1
    /\ ~AnyCooldown(client, now)

(* the client after one more generateResponse call whose first attempt calls
   the backend and succeeds; c itself when the first attempt is a cooldown
   skip *)
SucceedsFirst(c, t) ==
    LET run == generateResponse(c, DefaultMaxRetries, t)
    IN  IF run.outcome = "await" /\ Len(run.log) = 1
        THEN Settle(callResolved(Settle(run, run.call), run.call, t), run.call)
        ELSE c

RECURSIVE AfterSuccesses(_, _, _)
AfterSuccesses(c, n, t) ==
    IF n = 0 THEN c ELSE AfterSuccesses(SucceedsFirst(c, t), n - 1, t)

(* C18: from a current rank r > 0 with every cooldown expired, generate calls
   that each succeed on the first attempt bring the current rank back to 0, with
   the r-th of them; while a backend is in cooldown a success does not upgrade
   the rank. *)
C18_SuccessesRestoreBest ==
    LET r == client.currentModelIndex
    IN  /\ ~AnyCooldown(client, now) =>
              \A n \in 0..r :
                  AfterSuccesses(client, n, now).currentModelIndex = r - n
        /\ AnyCooldown(client, now) =>
              \A n \in 0..Len(models) :
                  AfterSuccesses(client, n, now).currentModelIndex = r

(* after the cooldown of backend 0 has expired, a success one rank below has
   put the cursor back on rank 0 *)
C18_Witness ==
    /\ lastOp.name = "resolved"
    /\ lastOp.answered = 1
    /\ client.currentModelIndex = 0
    /\ client.rateLimitCooldown[0] # 0
    /\ ~AnyCooldown(client, now)

(* C19 as claimed: within one generate call, after an attempt has failed with a
   rate-limit error, the retry is made against a different backend than the one
   just rate-limited, whatever the rank of the shared cursor, the worst rank
   included. *)
C19_RetryOnDifferentBackend ==
    /\ lastOp.name = "rejected"
    /\ lastOp.rateLimited
    /\ lastOp.log # <<>>
    => lastOp.log[1].rank # lastOp.answered

(* C19 as amended: the attempts that follow a rate-limit error in the same run
   of the call never call the backend that was just rate-limited, and the retry
   targets a different backend whenever the cursor stood on the failed backend's
   rank below the worst rank; otherwise the retry targets the same backend and
   is a cooldown skip. *)
C19_RetryNeverCallsRateLimited ==
    [][/\ lastOp'.name = "rejected"
       /\ lastOp'.rateLimited
       /\ lastOp'.log # <<>>
       => /\ \A k \in 1..Len(lastOp'.log) :
                lastOp'.log[k].kind = "call" => lastOp'.log[k].rank # lastOp'.answered
          /\ IF client.currentModelIndex = lastOp'.answered
                   /\ lastOp'.answered < WorstRank
             THEN lastOp'.log[1].rank = lastOp'.answered + 1
             ELSE lastOp'.log[1].rank = lastOp'.answered =>
                      lastOp'.log[1].kind = "skip"]_vars

(* a rate-limit error on the backend the cursor stood on, below the worst rank,
   was followed by a call of the next backend *)
C19_Witness ==
    /\ lastOp.name = "rejected"
    /\ lastOp.rateLimited
    /\ lastOp.answered < WorstRank
    /\ lastOp.log # <<>>
    /\ lastOp.log[1] = [kind |-> "call", rank |-> lastOp.answered + 1]

(* the step is the backend call of call id rejecting with error *)
RejectsWith(id, error) ==
    /\ lastOp'.name = "rejected"
    /\ \E call \in client.calls :
          /\ call.id = id
          /\ client' = Settle(callRejected(client, call, error, now), call)

(* the rank the cursor has when the catch block is left: the rank the next
   attempt targets, the final rank when no attempt follows *)
AfterCatch == IF lastOp'.log # <<>> THEN lastOp'.log[1].rank
              ELSE client'.currentModelIndex

(* C27: on a failed backend call the failing backend's cooldown-expiry is set to
   now + 5 minutes if and only if the error signals rate-limiting or quota
   exhaustion, no other cooldown changes, and in both cases the current rank
   moves exactly one step worse, clamped at the worst rank, and exactly one
   attempt is counted. *)
C27_FailureBookkeeping ==
    [][\A id \in CallIds, error \in Errors :
          RejectsWith(id, error) =>
              LET call == CHOOSE call \in client.calls : call.id = id
              IN  /\ client'.rateLimitCooldown =
                        IF error \in {"rate_limit", "quota"}
                        THEN [client.rateLimitCooldown EXCEPT
                                 ![call.rank] = now + CooldownMs]
                        ELSE client.rateLimitCooldown
                  /\ AfterCatch = Min(client.currentModelIndex + 1, WorstRank)
                  /\ lastOp'.call.attempts =
                        call.attempts + 1 + Skips(lastOp'.log)]_vars

(* a rate-limit error has put backend 1 into cooldown and moved the cursor to
   the worst rank, while backend 0, which had failed with another kind of
   error, has no cooldown *)
C27_Witness ==
    /\ lastOp.name = "rejected"
    /\ lastOp.rateLimited
    /\ lastOp.answered = 1
    /\ client.rateLimitCooldown[1] = now + CooldownMs
    /\ client.rateLimitCooldown[0] = 0
    /\ client.currentModelIndex = WorstRank

(* C28: the shared current-rank cursor always satisfies 0 <= rank <= K-1, after
   any sequence and interleaving of generate calls suspended at the backend
   call; a downgrade at the worst rank leaves the rank unchanged and still
   consumes an attempt, and an upgrade never moves below rank 0. *)
C28_CursorInRange ==
    /\ [](/\ client.currentModelIndex \in Ranks
          /\ \A call \in client.calls : call.rank \in Ranks
          /\ lastOp.name \in ClientOps =>
                \A k \in 1..Len(lastOp.log) : lastOp.log[k].rank \in Ranks)
    /\ [][/\ lastOp'.name = "rejected" /\ client.currentModelIndex = WorstRank =>
                /\ AfterCatch = WorstRank
                /\ lastOp'.call.attempts >
                      (CHOOSE call \in client.calls :
                           call.id = lastOp'.call.id).attempts
          /\ lastOp'.name = "resolved" /\ client.currentModelIndex = 0 =>
                client'.currentModelIndex = 0]_vars

(* a backend call has failed with the cursor at the worst rank while another
   call was suspended, and the cursor has stayed at the worst rank *)
C28_Witness ==
    /\ lastOp.name = "rejected"
    /\ lastOp.answered = WorstRank
    /\ client.currentModelIndex = WorstRank
    /\ client.calls # {}


(* C37: generate raises exhausted-retries without having called any backend
   only when every backend of the list is in cooldown: when some backend is not
   in cooldown as the call begins, the call calls at least one backend,
   wherever earlier calls have left the cursor. *)
C37_NoCallOnlyWhenAllCooling ==
    [][/\ lastOp'.name = "generateResponse"
       /\ client'.started = client.started + 1
       /\ lastOp'.outcome = "exhausted"
       => \A rank \in Ranks : InCooldown(client, rank, now)]_vars

=============================================================================
